---- MODULE Spec2Model ----
(***************************************************************************)
(* Model of src/solver.py: assign_workers_optimally and the script that    *)
(* calls it (lines 232-255).                                               *)
(*                                                                         *)
(* The function builds a 0/1 linear program (variables x, unfilled,        *)
(* same_site_pairs; an objective; linear constraints), hands it to an      *)
(* external solver and reads the solution back.  The model keeps the       *)
(* variables and constraints as data, exactly as the code adds them, and   *)
(* the external solver is any choice among the 0/1 assignments that        *)
(* satisfy the constraints (the set the optimum is taken from).            *)
(*                                                                         *)
(* Numbers: priorities and compatibility scores are integers here and the  *)
(* quotients the code computes are exact fractions [n, d] with d > 0.      *)
(* Worker locations and proficiencies only enter the cost coefficient of   *)
(* x (lines 96-104), which no constraint reads; they are not modelled.     *)
(***************************************************************************)
EXTENDS Integers, Sequences, FiniteSets, TLC

\* ---------------------------------------------------------------- bounds
NumWorkers == 2
MaxPriority == 2
MaxCompat == 1

\* Penalty scale of an unfilled position (solver.py:113).
PenaltyScale == 100

\* Site ids and skill names as in the example data (solver.py:203-214).
\* SkillOrder fixes the iteration order of a set of skills.
SiteIds == <<101, 102>>
SkillOrder == <<"electrician", "plumber">>

Skills == {SkillOrder[i] : i \in 1..Len(SkillOrder)}
SiteIdSet == {SiteIds[i] : i \in 1..Len(SiteIds)}

\* Keys the caller's compatibility map may hold (solver.py:223-230 gives a
\* sparse map; (1, 2) is its first key).
PairKeys == {<<1, 2>>, <<2, 1>>}

VARIABLES
    workers,                  \* list of [id, skills]: skills the worker has a proficiency for
    sites,                    \* list of [id, required]
    callerPrio,               \* the caller's site_priorities dict object
    callerCompat,             \* the caller's worker_compatibility dict object
    passed,                   \* which of the two maps the running call was given
    pc,                       \* position in assign_workers_optimally
    site_priorities,          \* local name (the caller's object when passed)
    worker_compatibility,     \* local name (the caller's object when passed)
    normalized_priorities,
    normalized_compatibility,
    x,                        \* keys of x, in creation order
    unfilled,                 \* keys of unfilled, in creation order
    same_site_pairs,          \* keys of same_site_pairs, in creation order
    penalty,                  \* objective coefficient of each unfilled variable
    constraints,              \* the constraints added to the solver
    status,                   \* what solver.Solve() returned
    sol,                      \* the solution values of the variables
    ret,                      \* what the call handed back to its caller, by name
    stdout,                   \* what the call printed
    error                     \* the exception that ended the call

vars == <<workers, sites, callerPrio, callerCompat, passed, pc, site_priorities,
          worker_compatibility, normalized_priorities, normalized_compatibility,
          x, unfilled, same_site_pairs, penalty, constraints, status, sol, ret,
          stdout, error>>

\* ------------------------------------------------------------- helpers
EmptyMap == [k \in {} |-> 0]

Range(s) == {s[i] : i \in 1..Len(s)}

Rat(n, d) == [n |-> n, d |-> d]
RatLess(a, b) == a.n * b.d < b.n * a.d
RatEq(a, b) == a.n * b.d = b.n * a.d

SetMax(S) == CHOOSE m \in S : \A v \in S : v <= m
SetMin(S) == CHOOSE m \in S : \A v \in S : m <= v

Values(m) == {m[k] : k \in DOMAIN m}

\* The first site of the list with this id (solver.py:160).
SiteSkills(ss, sid) == ss[CHOOSE i \in 1..Len(ss) : ss[i].id = sid /\ \A j \in 1..(i - 1) : ss[j].id # sid].required

\* ------------------------------------------------- defaults, normalizer
\* solver.py:37
DefaultPriorities(ss) == [s \in {ss[i].id : i \in 1..Len(ss)} |-> 1]

\* solver.py:41-46
DefaultCompatibility(ws) == [p \in {<<ws[i].id, ws[j].id>> : i, j \in 1..Len(ws)} \ {<<ws[i].id, ws[i].id>> : i \in 1..Len(ws)} |-> 0]

\* solver.py:49-51: the loop runs over a snapshot of the items and writes the
\* missing reverse keys into the live dict.
RECURSIVE SymStep(_, _, _)
SymStep(m, snap, todo) ==
    IF todo = {} THEN m
    ELSE LET k == CHOOSE q \in todo : TRUE
             rev == <<k[2], k[1]>>
         IN  SymStep(IF rev \in DOMAIN m THEN m ELSE m @@ (rev :> snap[k]), snap, todo \ {k})

SymmetricCompletion(m) == SymStep(m, m, DOMAIN m)

\* solver.py:54-57
NormalizePriorities(sp) ==
    LET max_priority == SetMax(Values(sp))
    IN  [s \in DOMAIN sp |-> Rat(sp[s], max_priority)]

\* solver.py:60-68
NormalizeCompatibility(wc) ==
    LET compat_values == Values(wc)
        max_compat == IF compat_values # {} THEN SetMax(compat_values) ELSE 1
        min_compat == IF compat_values # {} THEN SetMin(compat_values) ELSE 0
        compat_range == IF max_compat # min_compat THEN max_compat - min_compat ELSE 1
    IN  [k \in DOMAIN wc |-> Rat(wc[k] - min_compat, compat_range)]

\* ------------------------------------------------------- model builder
\* solver.py:89-93: one x per (worker, site, skill) with the skill required by
\* the site and held by the worker, in loop order.
XKeys(ws, ss) ==
    LET NS == Len(ss)
        NK == Len(SkillOrder)
        all == [n \in 1..(Len(ws) * NS * NK) |->
                  <<ws[((n - 1) \div (NS * NK)) + 1],
                    ss[(((n - 1) \div NK) % NS) + 1],
                    SkillOrder[((n - 1) % NK) + 1]>>]
        sel == SelectSeq(all, LAMBDA t : t[3] \in t[2].required /\ t[3] \in t[1].skills)
    IN  [i \in 1..Len(sel) |-> <<sel[i][1].id, sel[i][2].id, sel[i][3]>>]

\* solver.py:107-109
UnfilledKeys(ss) ==
    LET NK == Len(SkillOrder)
        all == [n \in 1..(Len(ss) * NK) |->
                  <<ss[((n - 1) \div NK) + 1], SkillOrder[((n - 1) % NK) + 1]>>]
        sel == SelectSeq(all, LAMBDA t : t[2] \in t[1].required)
    IN  [i \in 1..Len(sel) |-> <<sel[i][1].id, sel[i][2]>>]

\* solver.py:117-121: each pair of the worker list once, at every site.
SameSiteKeys(ws, ss) ==
    LET NW == Len(ws)
        NS == Len(ss)
        all == [n \in 1..(NW * NW * NS) |->
                  <<((n - 1) \div (NW * NS)) + 1,
                    (((n - 1) \div NS) % NW) + 1,
                    ((n - 1) % NS) + 1>>]
        sel == SelectSeq(all, LAMBDA t : t[1] < t[2])
    IN  [i \in 1..Len(sel) |-> <<ws[sel[i][1]].id, ws[sel[i][2]].id, ss[sel[i][3]].id>>]

\* solver.py:102, 113: sites whose priority the objective looks up.
PriorityLookups(ss) == {ss[i].id : i \in {j \in 1..Len(ss) : ss[j].required # {}}}

\* solver.py:113
UnfilledPenalty(np) == Rat(PenaltyScale * (2 * np.d - np.n), np.d)

\* --------------------------------------------------- constraint composer
\* A linear constraint: sum of coefficient * variable, compared with rhs.
Lin(cx, cu, cz, op, rhs) == [cx |-> cx, cu |-> cu, cz |-> cz, op |-> op, rhs |-> rhs]
Coef(S, c) == [k \in S |-> c]

\* Mutant: at most one assignment per worker and site, not per worker.
WorkerExclusivity_PerSite(ws, xk) ==
    {Lin(Coef({k \in Range(xk) : k[1] = ws[i].id /\ k[2] = sid}, 1), EmptyMap, EmptyMap, "le", 1) :
        i \in 1..Len(ws), sid \in {k[2] : k \in Range(xk)}}

\* solver.py:137-141
WorkerExclusivity(ws, xk) ==
    {Lin(Coef({k \in Range(xk) : k[1] = ws[i].id}, 1), EmptyMap, EmptyMap, "le", 1) : i \in 1..Len(ws)}

\* Mutant: the slot equation as an inequality (<= 1).
SlotCoverage_AtMost(xk, uk) ==
    {Lin(Coef({k \in Range(xk) : k[2] = u[1] /\ k[3] = u[2]}, 1), Coef({u}, 1), EmptyMap, "le", 1) : u \in Range(uk)}

\* Mutant: the slot equation without its unfilled variable.
SlotCoverage_NoSlack(xk, uk) ==
    {Lin(Coef({k \in Range(xk) : k[2] = u[1] /\ k[3] = u[2]}, 1), EmptyMap, EmptyMap, "eq", 1) : u \in Range(uk)}

\* solver.py:144-152
SlotCoverage(xk, uk) ==
    {Lin(Coef({k \in Range(xk) : k[2] = u[1] /\ k[3] = u[2]}, 1), Coef({u}, 1), EmptyMap, "eq", 1) : u \in Range(uk)}

\* solver.py:158-169
VarsAt(ss, xk, w, sid) == {k \in Range(xk) : k[1] = w /\ k[2] = sid /\ k[3] \in SiteSkills(ss, sid)}

\* Mutant: the two upper bounds only, without z >= A + B - 1.
AndLinearization_NoLower(A, B, z) ==
    {Lin(Coef(A, -1), EmptyMap, Coef({z}, 1), "le", 0),
     Lin(Coef(B, -1), EmptyMap, Coef({z}, 1), "le", 0)}

\* solver.py:172-178
AndLinearization(A, B, z) ==
    {Lin(Coef(A, -1), EmptyMap, Coef({z}, 1), "le", 0),
     Lin(Coef(B, -1), EmptyMap, Coef({z}, 1), "le", 0),
     Lin(Coef(A \cup B, 1), EmptyMap, Coef({z}, -1), "le", 1)}

\* solver.py:156-178
CoLocation(ss, xk, zk) ==
    UNION {LET A == VarsAt(ss, xk, z[1], z[3])
               B == VarsAt(ss, xk, z[2], z[3])
           IN  IF A # {} /\ B # {} THEN AndLinearization(A, B, z) ELSE {} : z \in Range(zk)}

\* ------------------------------------------------------ external solver
RECURSIVE Dot(_, _, _)
Dot(cf, val, S) ==
    IF S = {} THEN 0
    ELSE LET k == CHOOSE q \in S : TRUE
         IN  cf[k] * val[k] + Dot(cf, val, S \ {k})

Lhs(c, a) == Dot(c.cx, a.x, DOMAIN c.cx) + Dot(c.cu, a.unfilled, DOMAIN c.cu) + Dot(c.cz, a.same_site, DOMAIN c.cz)

Satisfies(c, a) == IF c.op = "eq" THEN Lhs(c, a) = c.rhs ELSE Lhs(c, a) <= c.rhs

\* Every 0/1 assignment of the variables that satisfies every constraint.
\* Constraints are tested as soon as the variables they mention have values.
Solutions(cons, xk, uk, zk) ==
    LET onX == {c \in cons : DOMAIN c.cu = {} /\ DOMAIN c.cz = {}}
        onXU == {c \in cons : DOMAIN c.cu # {} /\ DOMAIN c.cz = {}}
        onZ == {c \in cons : DOMAIN c.cz # {}}
        Part(ax, au, az) == [x |-> ax, unfilled |-> au, same_site |-> az]
        okX == {ax \in [Range(xk) -> {0, 1}] : \A c \in onX : Satisfies(c, Part(ax, EmptyMap, EmptyMap))}
        okU(ax) == {au \in [Range(uk) -> {0, 1}] : \A c \in onXU : Satisfies(c, Part(ax, au, EmptyMap))}
        okZ(ax, au) == {az \in [Range(zk) -> {0, 1}] : \A c \in onZ : Satisfies(c, Part(ax, au, az))}
    IN  UNION {UNION {{Part(ax, au, az) : az \in okZ(ax, au)} : au \in okU(ax)} : ax \in okX}

\* ----------------------------------------------------- result extractor
\* solver.py:184-187
Assignments(ss, xk, a) ==
    [s \in {ss[i].id : i \in 1..Len(ss)} |->
        LET sel == SelectSeq(xk, LAMBDA k : k[2] = s /\ a.x[k] = 1)
        IN  [i \in 1..Len(sel) |-> sel[i][1]]]

\* solver.py:190-193
UnfilledPositions(uk, a) == SelectSeq(uk, LAMBDA u : a.unfilled[u] = 1)

\* ------------------------------------------------------------ the call
NoSolution == [x |-> EmptyMap, unfilled |-> EmptyMap, same_site |-> EmptyMap]

\* The locals of a call that has not run yet.
FreshLocals ==
    [normalized_priorities |-> EmptyMap, normalized_compatibility |-> EmptyMap,
     x |-> <<>>, unfilled |-> <<>>, same_site_pairs |-> <<>>, penalty |-> EmptyMap,
     constraints |-> {}, status |-> "NOT_SOLVED", sol |-> NoSolution,
     ret |-> EmptyMap, stdout |-> <<>>, error |-> "none"]

\* solver.py:232-255: the script calls the function again and again, each
\* time passing or leaving out its two map objects.
Call ==
    /\ pc \in {"idle", "returned"}
    /\ \E passP \in BOOLEAN, passC \in BOOLEAN :
          /\ passed' = [site_priorities |-> passP, worker_compatibility |-> passC]
          /\ site_priorities' = IF passP THEN callerPrio ELSE EmptyMap
          /\ worker_compatibility' = IF passC THEN callerCompat ELSE EmptyMap
    /\ pc' = "defaults"
    /\ normalized_priorities' = FreshLocals.normalized_priorities
    /\ normalized_compatibility' = FreshLocals.normalized_compatibility
    /\ x' = FreshLocals.x
    /\ unfilled' = FreshLocals.unfilled
    /\ same_site_pairs' = FreshLocals.same_site_pairs
    /\ penalty' = FreshLocals.penalty
    /\ constraints' = FreshLocals.constraints
    /\ status' = FreshLocals.status
    /\ sol' = FreshLocals.sol
    /\ ret' = FreshLocals.ret
    /\ stdout' = FreshLocals.stdout
    /\ error' = FreshLocals.error
    /\ UNCHANGED <<workers, sites, callerPrio, callerCompat>>

\* solver.py:35-46
Defaults ==
    /\ pc = "defaults"
    /\ site_priorities' = IF passed.site_priorities THEN site_priorities ELSE DefaultPriorities(sites)
    /\ worker_compatibility' = IF passed.worker_compatibility THEN worker_compatibility ELSE DefaultCompatibility(workers)
    /\ pc' = "symmetric"
    /\ UNCHANGED <<workers, sites, callerPrio, callerCompat, passed, normalized_priorities,
                   normalized_compatibility, x, unfilled, same_site_pairs, penalty,
                   constraints, status, sol, ret, stdout, error>>

\* solver.py:48-51: the dict written to is the caller's own when one was passed.
Symmetrize ==
    /\ pc = "symmetric"
    /\ worker_compatibility' = SymmetricCompletion(worker_compatibility)
    /\ callerCompat' = IF passed.worker_compatibility THEN worker_compatibility' ELSE callerCompat
    /\ pc' = "normalize"
    /\ UNCHANGED <<workers, sites, callerPrio, passed, site_priorities, normalized_priorities,
                   normalized_compatibility, x, unfilled, same_site_pairs, penalty,
                   constraints, status, sol, ret, stdout, error>>

\* solver.py:53-68: max() of an empty dict's values raises ValueError.
Normalize ==
    /\ pc = "normalize"
    /\ IF DOMAIN site_priorities = {}
       THEN /\ error' = "ValueError"
            /\ pc' = "raised"
            /\ UNCHANGED <<normalized_priorities, normalized_compatibility>>
       ELSE /\ normalized_priorities' = NormalizePriorities(site_priorities)
            /\ normalized_compatibility' = NormalizeCompatibility(worker_compatibility)
            /\ pc' = "build"
            /\ UNCHANGED error
    /\ UNCHANGED <<workers, sites, callerPrio, callerCompat, passed, site_priorities,
                   worker_compatibility, x, unfilled, same_site_pairs, penalty,
                   constraints, status, sol, ret, stdout>>

\* solver.py:70-134: normalized_priorities[s_id] raises KeyError for a site
\* the priority map does not hold.
BuildVariables ==
    /\ pc = "build"
    /\ IF ~(PriorityLookups(sites) \subseteq DOMAIN normalized_priorities)
       THEN /\ error' = "KeyError"
            /\ pc' = "raised"
            /\ UNCHANGED <<x, unfilled, same_site_pairs, penalty>>
       ELSE /\ x' = XKeys(workers, sites)
            /\ unfilled' = UnfilledKeys(sites)
            /\ same_site_pairs' = SameSiteKeys(workers, sites)
            /\ penalty' = [u \in Range(UnfilledKeys(sites)) |-> UnfilledPenalty(normalized_priorities[u[1]])]
            /\ pc' = "constraints"
            /\ UNCHANGED error
    /\ UNCHANGED <<workers, sites, callerPrio, callerCompat, passed, site_priorities,
                   worker_compatibility, normalized_priorities, normalized_compatibility,
                   constraints, status, sol, ret, stdout>>

\* solver.py:136-178
BuildConstraints ==
    /\ pc = "constraints"
    /\ constraints' = WorkerExclusivity(workers, x) \cup SlotCoverage(x, unfilled)
                         \cup CoLocation(sites, x, same_site_pairs)
    /\ pc' = "solve"
    /\ UNCHANGED <<workers, sites, callerPrio, callerCompat, passed, site_priorities,
                   worker_compatibility, normalized_priorities, normalized_compatibility,
                   x, unfilled, same_site_pairs, penalty, status, sol, ret, stdout, error>>

\* solver.py:181: the solver answers OPTIMAL with one of the satisfying
\* assignments, or INFEASIBLE when there is none.
Solve ==
    /\ pc = "solve"
    /\ LET sols == Solutions(constraints, x, unfilled, same_site_pairs)
       IN  IF sols = {}
           THEN status' = "INFEASIBLE" /\ UNCHANGED sol
           ELSE status' = "OPTIMAL" /\ \E a \in sols : sol' = a
    /\ pc' = "extract"
    /\ UNCHANGED <<workers, sites, callerPrio, callerCompat, passed, site_priorities,
                   worker_compatibility, normalized_priorities, normalized_compatibility,
                   x, unfilled, same_site_pairs, penalty, constraints, ret, stdout, error>>

\* solver.py:183-200: the assignments dict is what the call returns; the
\* unfilled positions are printed.
Extract ==
    /\ pc = "extract"
    /\ IF status = "OPTIMAL"
       THEN /\ ret' = [assignments |-> Assignments(sites, x, sol)]
            /\ stdout' = IF UnfilledPositions(unfilled, sol) # <<>>
                         THEN <<UnfilledPositions(unfilled, sol)>>
                         ELSE <<>>
            /\ pc' = "returned"
            /\ UNCHANGED error
       ELSE /\ error' = "Exception"
            /\ pc' = "raised"
            /\ UNCHANGED <<ret, stdout>>
    /\ UNCHANGED <<workers, sites, callerPrio, callerCompat, passed, site_priorities,
                   worker_compatibility, normalized_priorities, normalized_compatibility,
                   x, unfilled, same_site_pairs, penalty, constraints, status, sol>>

Next ==
    \/ Call
    \/ Defaults
    \/ Symmetrize
    \/ Normalize
    \/ BuildVariables
    \/ BuildConstraints
    \/ Solve
    \/ Extract

\* ------------------------------------------------------------- inputs
\* Worker lists: the distinct ids 1..NumWorkers, each with one of the given
\* skill sets.
WorkerLists(skillsets) ==
    {[i \in 1..NumWorkers |-> [id |-> i, skills |-> f[i]]] : f \in [1..NumWorkers -> skillsets]}

\* Site lists: the distinct ids of SiteIds, each requiring one of the given
\* skill sets.
SiteLists(required) ==
    {[i \in 1..Len(SiteIds) |-> [id |-> SiteIds[i], required |-> f[i]]] : f \in [1..Len(SiteIds) -> required]}

\* Priority maps over any part of the sites; compatibility maps over any part
\* of PairKeys.
PriorityMaps(P) == UNION {[D -> P] : D \in SUBSET SiteIdSet}
CompatMaps(V) == UNION {[D -> V] : D \in SUBSET PairKeys}

InitOver(WL, SL, PM, CM) ==
    /\ workers \in WL
    /\ sites \in SL
    /\ callerPrio \in PM
    /\ callerCompat \in CM
    /\ passed = [site_priorities |-> FALSE, worker_compatibility |-> FALSE]
    /\ pc = "idle"
    /\ site_priorities = EmptyMap
    /\ worker_compatibility = EmptyMap
    /\ normalized_priorities = FreshLocals.normalized_priorities
    /\ normalized_compatibility = FreshLocals.normalized_compatibility
    /\ x = FreshLocals.x
    /\ unfilled = FreshLocals.unfilled
    /\ same_site_pairs = FreshLocals.same_site_pairs
    /\ penalty = FreshLocals.penalty
    /\ constraints = FreshLocals.constraints
    /\ status = FreshLocals.status
    /\ sol = FreshLocals.sol
    /\ ret = FreshLocals.ret
    /\ stdout = FreshLocals.stdout
    /\ error = FreshLocals.error

\* Every staffing shape; the priority map of a caller who left out the last
\* site; the compatibility map that scores the first pair (solver.py:224) in
\* both directions.
Init == InitOver(WorkerLists(SUBSET Skills), SiteLists(SUBSET Skills \ {{}}),
                 {m \in PriorityMaps({1}) : DOMAIN m = SiteIdSet \ {SiteIds[Len(SiteIds)]}},
                 {m \in CompatMaps({0}) : DOMAIN m = PairKeys})

Spec == Init /\ [][Next]_vars

\* Every map; workers with one skill each.
InitMaps == InitOver(WorkerLists({{k} : k \in Skills}), SiteLists(SUBSET Skills \ {{}}),
                     PriorityMaps(1..MaxPriority), CompatMaps((0 - MaxCompat)..MaxCompat))

SpecMaps == InitMaps /\ [][Next]_vars

\* ------------------------------------------------------------- claims
\* What the inputs say, independently of the variables the call created.
WorkerIds == {workers[i].id : i \in 1..Len(workers)}
RequiredSlots == UNION {{<<sites[i].id, k>> : k \in sites[i].required} : i \in 1..Len(sites)}
Eligible(u) == {workers[i].id : i \in {j \in 1..Len(workers) : u[2] \in workers[j].skills}}
XValue(a, k) == IF k \in DOMAIN a.x THEN a.x[k] ELSE 0
AssignedTo(a, u) == {w \in Eligible(u) : XValue(a, <<w, u[1], u[2]>>) = 1}
AssignedAt(a, w, sid) == \E k \in Skills : XValue(a, <<w, sid, k>>) = 1
EligibleAt(w, sid) == \E k \in SiteSkills(sites, sid) : w \in Eligible(<<sid, k>>)
Solved == pc \in {"extract", "returned"} /\ status = "OPTIMAL"
Occurrences(w) == {<<s, i>> \in SiteIdSet \X (1..(NumWorkers * Len(SkillOrder))) : i \in DOMAIN ret.assignments[s] /\ ret.assignments[s][i] = w}

\* C1: in every assignment satisfying the constraints, each required (site,
\* skill) pair is either filled by exactly one eligible worker with its
\* unfilled variable 0, or filled by none with its unfilled variable 1.
C1_SlotFilledXorUnfilled ==
    Solved => \A u \in RequiredSlots :
        /\ u \in DOMAIN sol.unfilled
        /\ \/ Cardinality(AssignedTo(sol, u)) = 1 /\ sol.unfilled[u] = 0
           \/ AssignedTo(sol, u) = {} /\ sol.unfilled[u] = 1

C1_Witness ==
    /\ Solved
    /\ \E u \in RequiredSlots : Cardinality(AssignedTo(sol, u)) = 1 /\ sol.unfilled[u] = 0
    /\ \E u \in RequiredSlots : Eligible(u) # {} /\ AssignedTo(sol, u) = {} /\ sol.unfilled[u] = 1

\* C2: in every assignment satisfying the constraints a worker has at most one
\* x equal to 1, and in the returned map no worker id occurs in two lists or
\* twice in one list.
C2_WorkerAtMostOnce ==
    /\ Solved => \A w \in WorkerIds : Cardinality({k \in Range(x) : k[1] = w /\ sol.x[k] = 1}) <= 1
    /\ pc = "returned" => \A w \in WorkerIds : Cardinality(Occurrences(w)) <= 1

C2_Witness ==
    /\ pc = "returned"
    /\ \E w \in WorkerIds :
          /\ Cardinality({k \in Range(x) : k[1] = w}) >= 3
          /\ Cardinality(Occurrences(w)) = 1

\* C3: whatever the input, some 0/1 assignment of x, unfilled and same_site
\* satisfies the constraints the call built, so the solver never answers
\* INFEASIBLE.
C3_AlwaysFeasible ==
    /\ pc = "solve" => Solutions(constraints, x, unfilled, same_site_pairs) # {}
    /\ status # "INFEASIBLE"
    /\ error # "Exception"

C3_Witness ==
    /\ Solved
    /\ \E u \in RequiredSlots : Eligible(u) = {}
    /\ \E u \in RequiredSlots : Cardinality(Eligible(u)) >= 2

\* C4: on OPTIMAL the call hands back, besides the site-to-workers map, the
\* list of the (site, skill) pairs whose unfilled variable is 1; a pair with
\* no eligible worker is in that list.
C4_UnfilledReturned ==
    pc = "returned" =>
        /\ "assignments" \in DOMAIN ret
        /\ \A u \in RequiredSlots :
              (sol.unfilled[u] = 1 \/ Eligible(u) = {}) => ("unfilled" \in DOMAIN ret /\ u \in Range(ret.unfilled))

\* C5: the penalty on unfilled[s, k] is strictly positive, and larger for the
\* site of larger priority.
C5_PenaltyGrowsWithPriority ==
    (pc \in {"constraints", "solve", "extract", "returned"}) =>
        /\ \A u \in DOMAIN penalty : penalty[u].n > 0
        /\ \A u1, u2 \in DOMAIN penalty :
              (site_priorities[u1[1]] > site_priorities[u2[1]] /\ site_priorities[u2[1]] > 0)
                  => RatLess(penalty[u2], penalty[u1])

\* C6: after the symmetric completion every pair (a, b) of the compatibility
\* map has its reverse (b, a) in the map, with the same score.
C6_CompatibilitySymmetric ==
    (pc \in {"normalize", "build", "constraints", "solve", "extract", "returned", "raised"}) =>
        \A k \in DOMAIN worker_compatibility :
            /\ <<k[2], k[1]>> \in DOMAIN worker_compatibility
            /\ worker_compatibility[<<k[2], k[1]>>] = worker_compatibility[k]

\* C7: a site the supplied priority map omits has priority 1: the normalized
\* map is defined for every site before the objective is built, and the call
\* does not fail on the missing key.
C7_MissingPriorityIsOne ==
    (passed.site_priorities /\ pc \in {"build", "constraints", "solve", "extract", "returned", "raised"}) =>
        /\ error \notin {"KeyError", "ValueError"}
        /\ \A s \in SiteIdSet :
              /\ s \in DOMAIN normalized_priorities
              /\ s \notin DOMAIN callerPrio => normalized_priorities[s].n = 1

\* C8: a call leaves the caller's worker_compatibility and site_priorities
\* maps as they were.
C8_InputsUnchanged == [][callerCompat' = callerCompat /\ callerPrio' = callerPrio]_vars

\* C9: in every assignment satisfying the constraints, same_site[w1, w2, s] is
\* 1 only if both w1 and w2 are assigned at s.
C9_SameSiteOnlyIfBoth ==
    Solved => \A z \in Range(same_site_pairs) :
        sol.same_site[z] = 1 => (AssignedAt(sol, z[1], z[3]) /\ AssignedAt(sol, z[2], z[3]))

\* C10: for two workers both eligible at s, in every assignment satisfying
\* the constraints in which both are assigned at s, same_site[w1, w2, s] is 1.
C10_SameSiteIfBoth ==
    Solved => \A z \in Range(same_site_pairs) :
        (EligibleAt(z[1], z[3]) /\ EligibleAt(z[2], z[3])
            /\ AssignedAt(sol, z[1], z[3]) /\ AssignedAt(sol, z[2], z[3]))
                => sol.same_site[z] = 1

C10_Witness ==
    /\ Solved
    /\ \E z \in Range(same_site_pairs) :
          /\ AssignedAt(sol, z[1], z[3]) /\ AssignedAt(sol, z[2], z[3])
          /\ sol.same_site[z] = 1
          /\ <<z[1], z[2]>> \in DOMAIN normalized_compatibility

====
